---------------------------- MODULE Spec2Model ----------------------------
(***************************************************************************)
(* Model of packages/umi-build-dev/src/UserConfig.js: resolution of the    *)
(* layered configuration files (getConfigFile, requireFile,                *)
(* normalizeConfig, UserConfig.getConfig), the plugin registry             *)
(* (initConfigPlugins) and the watch handler of watchWithDevServer.        *)
(*                                                                         *)
(* JavaScript values are modelled as follows.                              *)
(*   - an object is a function whose DOMAIN is the set of its own keys;    *)
(*     deep equality (lodash.isequal) is then TLA+ equality;               *)
(*   - the value of a plain namespace ("a", "b", "zz") is a number, 0      *)
(*     standing for the falsy values;                                      *)
(*   - `context`, `exportStatic`, `default` and a page are objects;        *)
(*   - `pages` is the sequence of its <<key, page>> entries in the order   *)
(*     Object.keys enumerates them, because the reduce of normalizeConfig  *)
(*     depends on that order when two keys are rewritten to the same key;  *)
(*   - a string that the code slices is a sequence of one-character        *)
(*     strings.                                                            *)
(***************************************************************************)
EXTENDS Integers, Sequences, FiniteSets, TLC

VARIABLES
    env,              \* process.env.UMI_ENV is set
    isDev,            \* process.env.NODE_ENV === 'development'
    disk,             \* the configuration files of paths.cwd
    cache,            \* require.cache, restricted to the configuration paths
    plugins,          \* this.plugins
    configFailed,     \* this.configFailed
    config,           \* this.config
    file,             \* this.file (0: undefined)
    sink,             \* the configuration held by createRouteMiddleware
    svcConfig,        \* service.config
    svcInitialConfig, \* service._initialConfig
    pc,               \* "constructed", "watching", "crashed"
    handler,          \* the watch handler is registered on the watcher
    modifyConfig,     \* the modifyConfig hook the host registered
    last,             \* what the last getConfig call or watch pass did
    prev,             \* the watch pass before the last one
    dirty,            \* a file was edited since the last call or pass
    calls,            \* number of getConfig calls of the host so far
    passes,           \* number of watch passes so far
    nIn,              \* normalizeConfig harness: the input configuration
    nOut,             \* normalizeConfig harness: normalizeConfig(nIn)
    nOut2,            \* normalizeConfig harness: normalizeConfig(nOut)
    nPc               \* normalizeConfig harness: "off", "in", "once", "twice"

nvars == <<nIn, nOut, nOut2, nPc>>
wvars == <<env, isDev, disk, cache, plugins, configFailed, config, file, sink,
           svcConfig, svcInitialConfig, pc, handler, modifyConfig, last, prev,
           dirty, calls, passes>>
vars == <<wvars, nvars>>

---------------------------------------------------------------------------
(* Values *)

\* {} : the object without keys
EmptyObj == [k \in {} |-> 0]

\* the namespaces whose values are numbers
NumKeys == {"a", "b", "zz"}

\* JavaScript truthiness of config[k]: 0 is falsy, every object is truthy
Truthy(k, v) == IF k \in NumKeys THEN v # 0 ELSE TRUE

\* config[k] is present and truthy:  `config.k && ...`
Has(cfg, k) == k \in DOMAIN cfg /\ Truthy(k, cfg[k])

\* { ...f, ...g } : own keys of g replace those of f, whole
Spread(f, g) ==
    [k \in DOMAIN f \cup DOMAIN g |-> IF k \in DOMAIN g THEN g[k] ELSE f[k]]

\* str.slice(-n): the last n characters, the whole string when it is shorter
SliceLast(str, n) ==
    IF Len(str) <= n THEN str ELSE SubSeq(str, Len(str) - n + 1, Len(str))

Slash == <<"/">>
DotHtml == <<".", "h", "t", "m", "l">>

---------------------------------------------------------------------------
(* normalizeConfig, lines 13-53 *)

\* lines 36-46: the new key of one page
newKey(key, htmlSuffix) ==
    LET k1 == IF /\ htmlSuffix
                 /\ SliceLast(key, 1) # Slash
                 /\ SliceLast(key, 5) # DotHtml
              THEN key \o DotHtml
              ELSE key
    IN  IF Len(k1) = 0 \/ k1[1] # "/" THEN Slash \o k1 ELSE k1

\* memo[key] = page on an object kept as its entries in insertion order
SetEntry(memo, key, page) ==
    IF \E i \in DOMAIN memo : memo[i][1] = key
    THEN [i \in DOMAIN memo |-> IF memo[i][1] = key THEN <<key, page>> ELSE memo[i]]
    ELSE Append(memo, <<key, page>>)

\* lines 35-49: Object.keys(config.pages).reduce(..., {})
RECURSIVE ReducePages(_, _, _)
ReducePages(pages, htmlSuffix, memo) ==
    IF pages = <<>> THEN memo
    ELSE ReducePages(Tail(pages), htmlSuffix,
                     SetEntry(memo, newKey(Head(pages)[1], htmlSuffix), Head(pages)[2]))

\* lines 17-23: page.context = { ...config.context, ...page.context }
WithContext(pages, context) ==
    [i \in DOMAIN pages |->
        LET page == pages[i][2]
            own  == IF "context" \in DOMAIN page THEN page["context"] ELSE EmptyObj
        IN  <<pages[i][1], Spread(page, [k \in {"context"} |-> Spread(context, own)])>>]

\* lines 30-34
HtmlSuffix(cfg) ==
    /\ Has(cfg, "exportStatic")
    /\ cfg["exportStatic"]["htmlSuffix"]

normalizeConfig(cfg0) ==
    LET cfg == IF Has(cfg0, "default") THEN cfg0["default"] ELSE cfg0
        c1 == IF Has(cfg, "context") /\ Has(cfg, "pages")
              THEN [cfg EXCEPT !["pages"] = WithContext(@, cfg["context"])]
              ELSE cfg
    IN  IF Has(c1, "pages")
        THEN [c1 EXCEPT !["pages"] = ReducePages(@, HtmlSuffix(c1), <<>>)]
        ELSE c1

---------------------------------------------------------------------------
(* The configuration files, the module loader and the plugins *)

\* CONFIG_FILES of ./constants: the conventional base files, first wins
CONFIG_FILES == <<"umirc", "config">>

\* a path of the file set: <<i, v>> is CONFIG_FILES[i] itself ("base"), with
\* .js replaced by .${env}.js ("env") or by .local.js ("local")
Variants == {"base", "env", "local"}
Paths == (1..Len(CONFIG_FILES)) \X Variants

\* a file: absent, a module whose evaluation throws, or a module and its exports
Absent == [exists |-> FALSE, throws |-> FALSE, exports |-> EmptyObj]
Broken == [exists |-> TRUE, throws |-> TRUE, exports |-> EmptyObj]
Module(exports) == [exists |-> TRUE, throws |-> FALSE, exports |-> exports]

\* an entry of require.cache
NotCached == [cached |-> FALSE, exports |-> EmptyObj]
Cached(exports) == [cached |-> TRUE, exports |-> exports]

\* null (this.config before setConfig)
Null == [null |-> TRUE]

\* the value of obj[name], <<>> when it is undefined; `pages` as the set of its
\* entries, since deep equality of objects does not depend on the key order
Prop(obj, name) ==
    IF name \notin DOMAIN obj THEN <<>>
    ELSE IF name = "pages" THEN << { obj[name][i] : i \in DOMAIN obj[name] } >>
    ELSE << obj[name] >>

\* a comparison that never finds two values equal
isEqual_Never(x, y) == FALSE

\* lodash.isequal on two values read with Prop
isEqual(x, y) == x = y

\* lodash.clonedeep
clone(x) == x

\* an assignment that is lost
Assign_Lost(obj, new, name) == obj

\* obj[name] = value, where value was read with newConfig[name]
Assign(obj, new, name) ==
    IF name \in DOMAIN new
    THEN Spread(obj, [k \in {name} |-> new[name]])
    ELSE [k \in DOMAIN obj \ {name} |-> obj[k]]

\* number of events of the trace with this tag
Count(trace, tag) == Cardinality({ i \in DOMAIN trace : trace[i][1] = tag })

\* the place of the first event with this tag, 0 when there is none
First(trace, tag) ==
    IF \E i \in DOMAIN trace : trace[i][1] = tag
    THEN CHOOSE i \in DOMAIN trace :
            /\ trace[i][1] = tag
            /\ \A j \in 1..(i - 1) : trace[j][1] # tag
    ELSE 0

---------------------------------------------------------------------------
(* getConfigFile, lines 55-70 *)

getConfigFile(d) ==
    LET files == SelectSeq([i \in 1..Len(CONFIG_FILES) |-> i],
                           LAMBDA i : d[<<i, "base">>].exists)
    IN  [file  |-> IF files = <<>> THEN 0 ELSE files[1],
         trace |-> IF Len(files) > 1 THEN << <<"printWarn", 0>> >> ELSE <<>>]

---------------------------------------------------------------------------
(* requireFile, lines 72-89 *)

\* the exports of a module after normalizeConfig changed them in place
Mutated(exports) ==
    IF Has(exports, "default")
    THEN [exports EXCEPT !["default"] = normalizeConfig(exports)]
    ELSE normalizeConfig(exports)

\* onError is TRUE for the handler of getConfig (lines 164-172), which reports
\* and throws, FALSE for the default handler (lines 79-82), which returns {}
requireFile(d, c, filePath, onError) ==
    IF ~d[filePath].exists
    THEN [config |-> EmptyObj, cache |-> c, threw |-> FALSE,
          trace |-> << <<"existsSync", filePath>> >>]
    ELSE IF c[filePath].cached
    THEN [config |-> normalizeConfig(c[filePath].exports),
          cache  |-> [c EXCEPT ![filePath] = Cached(Mutated(c[filePath].exports))],
          threw  |-> FALSE,
          trace  |-> << <<"existsSync", filePath>>, <<"require", filePath>> >>]
    ELSE IF d[filePath].throws
    THEN [config |-> EmptyObj, cache |-> c, threw |-> onError,
          trace  |-> << <<"existsSync", filePath>>, <<"require", filePath>>,
                        <<"load", filePath>> >>
                     \o (IF onError THEN << <<"printError", "load">> >>
                                    ELSE << <<"console.error", filePath>> >>)]
    ELSE [config |-> normalizeConfig(d[filePath].exports),
          cache  |-> [c EXCEPT ![filePath] = Cached(Mutated(d[filePath].exports))],
          threw  |-> FALSE,
          trace  |-> << <<"existsSync", filePath>>, <<"require", filePath>>,
                        <<"load", filePath>> >>]

\* a file that is not asked for:  `env ? requireFile(...) : {}`
NoFile(c) == [config |-> EmptyObj, cache |-> c, threw |-> FALSE, trace |-> <<>>]

---------------------------------------------------------------------------
(* UserConfig.initConfigPlugins, lines 124-133 *)

\* a plugin: its namespace, whether it defines validate and onChange, and the
\* values its validate throws on
PluginA == [name |-> "a", validate |-> TRUE, rejects |-> {0, 2}, onChange |-> TRUE]
PluginA2 == [name |-> "a", validate |-> TRUE, rejects |-> {3}, onChange |-> FALSE]
PluginB == [name |-> "b", validate |-> FALSE, rejects |-> {}, onChange |-> TRUE]

\* the lists the modifyConfigPlugins hook may return
PluginLists == { <<PluginA, PluginB>>, <<PluginA, PluginA2, PluginB>> }

\* this.plugins = plugins.map(p => p(this))
initConfigPlugins(list) == list

pluginNames == { plugins[i].name : i \in DOMAIN plugins }

---------------------------------------------------------------------------
(* UserConfig.getConfig, lines 135-218 *)

\* the modifyConfig hooks of the host: applyPlugins('modifyConfig', ...)
Hooks == {"identity", "addKey", "throw"}

applyPlugins(hook, cfg) ==
    IF hook = "addKey" THEN Spread(cfg, [k \in {"zz"} |-> 1]) ELSE cfg

\* lines 148-158: the entries deleted from require.cache
Evicted ==
    { q \in Paths : q[2] \in {"base", "local"} \/ (q[2] = "env" /\ env) }

\* a getConfig that keeps require.cache as it is
Evict_None(c) == c

\* lines 148-158: require.cache after the deletions
Evict(c) == [q \in Paths |-> IF q \in Evicted THEN NotCached ELSE c[q]]

\* line 187: the plugin's validate is called on the value of its namespace
Validated(cfg, plugin) == Has(cfg, plugin.name) /\ plugin.validate

\* lines 185-199, from plugin i on: the validators called, and the first that throws
RECURSIVE Validate(_, _)
Validate(i, cfg) ==
    IF i > Len(plugins) THEN [threw |-> FALSE, trace |-> <<>>]
    ELSE IF Validated(cfg, plugins[i])
    THEN IF cfg[plugins[i].name] \in plugins[i].rejects
         THEN [threw |-> TRUE, trace |-> << <<"validate", i>> >>]
         ELSE LET rest == Validate(i + 1, cfg)
              IN  [rest EXCEPT !.trace = << <<"validate", i>> >> \o @]
    ELSE Validate(i + 1, cfg)

\* a check that finds every key owned
UnknownKeys_None(cfg) == {}

\* lines 203-204: the keys no plugin owns
UnknownKeys(cfg) == DOMAIN cfg \ pluginNames

\* a check that reports the error before it calls the callback
Reject_Late(setConfig, stage) ==
    << <<"printError", stage>> >>
        \o (IF setConfig THEN << <<"setConfig", stage>> >> ELSE <<>>)
        \o << <<"throw", stage>> >>

\* lines 192-196 and 205-213: what a failing check does before it throws
Reject(setConfig, stage) ==
    (IF setConfig THEN << <<"setConfig", stage>> >> ELSE <<>>)
        \o << <<"printError", stage>>, <<"throw", stage>> >>

\* the file among `units` (base, env, local) whose `pages` the merge kept
PagesOwner(units) ==
    IF "pages" \in DOMAIN units[3] THEN "local"
    ELSE IF "pages" \in DOMAIN units[2] THEN "env"
    ELSE "base"

\* line 174: normalizeConfig of the merge sets page.context on the page objects
\* of the module the pages came from
AfterMerge(c, f, merged, units) ==
    LET q == <<f, PagesOwner(units)>>
    IN  IF /\ ~Has(merged, "default")
           /\ Has(merged, "context") /\ Has(merged, "pages")
           /\ c[q].cached
        THEN LET ex == c[q].exports
                 inner == IF Has(ex, "default") THEN ex["default"] ELSE ex
                 fixed == [inner EXCEPT !["pages"] = WithContext(@, merged["context"])]
             IN  [c EXCEPT ![q] = Cached(IF Has(ex, "default")
                                         THEN [ex EXCEPT !["default"] = fixed]
                                         ELSE fixed)]
        ELSE c

\* the result of getConfig: whether it returned or threw and at which stage,
\* the configuration returned or under validation, and what it did
Result(f, c, trace) ==
    [ret |-> "return", stage |-> "none", file |-> f, config |-> EmptyObj,
     merged |-> EmptyObj, units |-> <<EmptyObj, EmptyObj, EmptyObj>>,
     cache |-> c, called |-> FALSE, trace |-> trace]

Thrown(res, stage) ==
    [res EXCEPT !.ret = "throw", !.stage = stage,
                !.trace = @ \o << <<"throw", stage>> >>]

\* lines 192-197 and 205-213
Rejected(res, setConfig, stage) ==
    [res EXCEPT !.ret = "throw", !.stage = stage, !.called = setConfig,
                !.trace = @ \o Reject(setConfig, stage)]

\* a check that looks for unknown keys before it looks at the validators
Checked_UnknownFirst(res, setConfig, v) ==
    IF UnknownKeys(res.config) # {}
    THEN Rejected(res, setConfig, "unknown")
    ELSE IF v.threw
    THEN Rejected([res EXCEPT !.trace = @ \o v.trace], setConfig, "validate")
    ELSE [res EXCEPT !.trace = @ \o v.trace]

\* lines 184-217, v being the outcome of the validators
Checked(res, setConfig, v) ==
    IF v.threw
    THEN Rejected([res EXCEPT !.trace = @ \o v.trace], setConfig, "validate")
    ELSE IF UnknownKeys(res.config) # {}
    THEN Rejected([res EXCEPT !.trace = @ \o v.trace], setConfig, "unknown")
    ELSE [res EXCEPT !.trace = @ \o v.trace]

Check(res, setConfig) == Checked(res, setConfig, Validate(1, res.config))

\* lines 180-217
Hooked(res, setConfig, hook) ==
    IF res.ret = "throw" THEN res
    ELSE IF hook = "throw"
    THEN Thrown([res EXCEPT !.trace = @ \o << <<"modifyConfig", hook>> >>], "hook")
    ELSE Check([res EXCEPT !.config = applyPlugins(hook, @),
                           !.trace = @ \o << <<"modifyConfig", hook>> >>], setConfig)

\* a merge in which the base file wins
Merge_BaseWins(res, units, c) ==
    [res EXCEPT !.units = units,
                !.merged = Spread(Spread(units[3], units[2]), units[1]),
                !.config = normalizeConfig(Spread(Spread(units[3], units[2]), units[1])),
                !.cache = c]

\* line 174: the merge of the three units and its normalizeConfig
Merge(res, units, c) ==
    [res EXCEPT !.units = units,
                !.merged = Spread(Spread(units[1], units[2]), units[3]),
                !.config = normalizeConfig(Spread(Spread(units[1], units[2]), units[3])),
                !.cache = AfterMerge(c, res.file,
                                     Spread(Spread(units[1], units[2]), units[3]), units)]

\* line 177
LoadLocal(res, b, e, l) ==
    Merge([res EXCEPT !.trace = @ \o b.trace \o e.trace \o l.trace],
          <<b.config, e.config, l.config>>, l.cache)

\* line 176
LoadEnv(res, b, e) ==
    LoadLocal(res, b, e,
              IF isDev THEN requireFile(disk, e.cache, <<res.file, "local">>, FALSE)
                       ELSE NoFile(e.cache))

\* line 175
LoadBase(res, b) ==
    IF b.threw
    THEN Thrown([res EXCEPT !.cache = b.cache, !.trace = @ \o b.trace], "load")
    ELSE LoadEnv(res, b,
                 IF env THEN requireFile(disk, b.cache, <<res.file, "env">>, FALSE)
                        ELSE NoFile(b.cache))

\* lines 147-178
Resolve(res) == LoadBase(res, requireFile(disk, res.cache, <<res.file, "base">>, TRUE))

\* a getConfig for which a missing base file is an error
Found_Required(found, force) ==
    IF found.file = 0
    THEN Thrown(Result(0, cache, found.trace \o << <<"printError", "load">> >>), "load")
    ELSE IF force
    THEN Resolve(Result(found.file, Evict(cache), found.trace \o << <<"evict", 0>> >>))
    ELSE Resolve(Result(found.file, cache, found.trace))

\* lines 141-158
Found(found, force) ==
    IF found.file = 0 THEN Result(0, cache, found.trace)
    ELSE IF force
    THEN Resolve(Result(found.file, Evict(cache), found.trace \o << <<"evict", 0>> >>))
    ELSE Resolve(Result(found.file, cache, found.trace))

GetConfig(force, setConfig, hook) ==
    IF getConfigFile(disk).file = 0
    THEN Found(getConfigFile(disk), force)
    ELSE Hooked(Found(getConfigFile(disk), force), setConfig, hook)

---------------------------------------------------------------------------
(* The handler of watchWithDevServer, lines 233-271 *)

\* lines 256-265, from plugin i on; oc is the plugin whose onChange throws when
\* it is invoked (0: none does)
RECURSIVE Diff(_, _, _, _, _, _)
Diff(i, newConfig, oldConfig, initial, current, oc) ==
    IF i > Len(plugins)
    THEN [threw |-> FALSE, stage |-> "none", initial |-> initial,
          current |-> current, trace |-> <<>>]
    ELSE IF oldConfig = Null
    THEN [threw |-> TRUE, stage |-> "TypeError", initial |-> initial,
          current |-> current, trace |-> << <<"throw", "TypeError">> >>]
    ELSE
    LET name == plugins[i].name
    IN  IF ~isEqual(Prop(newConfig, name), Prop(oldConfig, name))
        THEN LET ini == Assign(initial, newConfig, name)
                 cur == Assign(current, newConfig, name)
                 t == << <<"write", i>> >>
                        \o (IF plugins[i].onChange
                            THEN << <<"onChange", i, newConfig>> >> ELSE <<>>)
             IN  IF plugins[i].onChange /\ oc = i
                 THEN [threw |-> TRUE, stage |-> "onChange", initial |-> ini,
                       current |-> cur, trace |-> t \o << <<"throw", "onChange">> >>]
                 ELSE LET rest == Diff(i + 1, newConfig, oldConfig, ini, cur, oc)
                      IN  [rest EXCEPT !.trace = t \o @]
        ELSE Diff(i + 1, newConfig, oldConfig, initial, current, oc)

\* a try that ends before the loop over the plugins
Caught_BeforeLoop == {"load", "hook", "validate", "unknown", "reload"}

\* the stages of a pass whose exception the try of lines 235-270 catches
Caught == {"load", "hook", "validate", "unknown", "reload", "TypeError", "onChange"}

\* lines 266-270
Catch(r) ==
    IF r.stage \in Caught
    THEN [r EXCEPT !.configFailed = TRUE, !.trace = @ \o << <<"Failed", r.stage>> >>]
    ELSE [r EXCEPT !.escaped = TRUE]

\* a handler whose setConfig callback does nothing
Start_NoCallback(g) ==
    [configFailed |-> configFailed, config |-> config,
     sink |-> sink, initial |-> svcInitialConfig, current |-> svcConfig,
     stage |-> g.stage, trace |-> g.trace, escaped |-> FALSE, g |-> g]

\* the fields when getConfig is over; lines 238-241: the setConfig callback
Start(g) ==
    [configFailed |-> configFailed, config |-> IF g.called THEN g.config ELSE config,
     sink |-> sink, initial |-> svcInitialConfig, current |-> svcConfig,
     stage |-> g.stage, trace |-> g.trace, escaped |-> FALSE, g |-> g]

\* lines 253-265, d being the outcome of the loop
Accept(r, d) ==
    IF d.threw
    THEN Catch([r EXCEPT !.config = r.g.config, !.initial = d.initial,
                         !.current = d.current, !.stage = d.stage,
                         !.trace = @ \o << <<"accept", 0>> >> \o d.trace])
    ELSE [r EXCEPT !.config = r.g.config, !.initial = d.initial,
                   !.current = d.current,
                   !.trace = @ \o << <<"accept", 0>> >> \o d.trace]

Propagate(r, oc) ==
    Accept(r, Diff(1, r.g.config, clone(r.config), r.initial, r.current, oc))

\* a recovery without the reload of the host
Recover_NoReload(r, reloadThrows, oc) ==
    IF r.configFailed
    THEN Propagate([r EXCEPT !.configFailed = FALSE,
                       !.trace = @ \o << <<"Healthy", 0>> >>], oc)
    ELSE Propagate(r, oc)

\* lines 248-251
Recover(r, reloadThrows, oc) ==
    IF r.configFailed
    THEN IF reloadThrows
         THEN Catch([r EXCEPT !.configFailed = FALSE, !.stage = "reload",
                        !.trace = @ \o << <<"Healthy", 0>>, <<"reload", 0>>,
                                          <<"throw", "reload">> >>])
         ELSE Propagate([r EXCEPT !.configFailed = FALSE,
                            !.trace = @ \o << <<"Healthy", 0>>, <<"reload", 0>> >>], oc)
    ELSE Propagate(r, oc)

\* a handler that leaves the middleware as it is
Sink_Skipped(r, reloadThrows, oc) == Recover(r, reloadThrows, oc)

\* line 245
Sink(r, reloadThrows, oc) ==
    Recover([r EXCEPT !.sink = r.g.config,
                      !.trace = @ \o << <<"setMiddlewareConfig", 0>> >>],
            reloadThrows, oc)

Handle(r, reloadThrows, oc) ==
    IF r.g.ret = "throw" THEN Catch(r) ELSE Sink(r, reloadThrows, oc)

\* one run of the handler: the new values of the fields, and what it did
Pass(hook, reloadThrows, oc) ==
    Handle(Start(GetConfig(TRUE, TRUE, hook)), reloadThrows, oc)

---------------------------------------------------------------------------
(* The program and its environment *)

MaxCalls == 1
MaxPasses == 2

NoCall == [kind |-> "none", force |-> FALSE, began |-> FALSE, oldConfig |-> Null,
           ret |-> "return", stage |-> "none", file |-> 0, config |-> EmptyObj,
           merged |-> EmptyObj, units |-> <<EmptyObj, EmptyObj, EmptyObj>>,
           called |-> FALSE, trace |-> <<>>]

\* the pass before the last one: whether it ran to its end, and its newConfig
NoPass == [kind |-> "none", stage |-> "none", config |-> EmptyObj]

\* the files an edit may write: the first base file and its env override
BaseFiles == { Module([a |-> 1, b |-> 1]), Module([a |-> 3, b |-> 1]),
               Module([a |-> 2, b |-> 1]), Module([yy |-> 1, zz |-> 1]), Broken, Absent }
EnvFiles == { Module([b |-> 2]), Absent }

Editable == { <<1, "base">>, <<1, "env">> }

FilesOf(q) == IF q[2] = "base" THEN BaseFiles ELSE EnvFiles

NoDisk == [q \in Paths |-> Absent]

\* the files at startup
InitialDisks ==
    { NoDisk,
      [NoDisk EXCEPT ![<<1, "base">>] = Module([a |-> 1, b |-> 1]),
                     ![<<1, "env">>] = Module([b |-> 2]),
                     ![<<1, "local">>] = Module([b |-> 3])],
      [NoDisk EXCEPT ![<<1, "base">>] = Module([a |-> 1]),
                     ![<<2, "base">>] = Module([a |-> 1, b |-> 1]),
                     ![<<2, "env">>] = Module([b |-> 2])],
      [NoDisk EXCEPT ![<<2, "base">>] = Module([default |-> [a |-> 1, b |-> 1]]),
                     ![<<2, "env">>] = Broken,
                     ![<<2, "local">>] = Module([b |-> 3])],
      [NoDisk EXCEPT ![<<1, "base">>] = Module([a |-> 0, b |-> 1]),
                     ![<<1, "local">>] = Broken] }

\* the plugin list and the modifyConfig hook of the host
Hosts == { <<list, "identity">> : list \in PluginLists }
            \cup { <<<<PluginA, PluginB>>, hook>> : hook \in Hooks }

\* the fields after `new UserConfig(service)`, lines 113-122
Constructed ==
    /\ cache = [q \in Paths |-> NotCached]
    /\ \E host \in Hosts : /\ plugins = initConfigPlugins(host[1])
                            /\ modifyConfig = host[2]
    /\ configFailed = FALSE
    /\ config = Null
    /\ file = 0
    /\ sink = Null
    /\ svcConfig = EmptyObj
    /\ svcInitialConfig = EmptyObj
    /\ pc = "constructed"
    /\ handler = FALSE
    /\ last = NoCall
    /\ prev = NoPass
    /\ dirty = FALSE
    /\ calls = 0
    /\ passes = 0
    /\ nIn = EmptyObj /\ nOut = EmptyObj /\ nOut2 = EmptyObj /\ nPc = "off"

\* the process starts with UMI_ENV and NODE_ENV as its environment has them
Init ==
    /\ env \in BOOLEAN
    /\ isDev \in BOOLEAN
    /\ disk \in InitialDisks
    /\ Constructed

\* a watched file of the file set is written or deleted
EditFile(q, f) ==
    /\ pc = "watching" /\ handler /\ passes < MaxPasses
    /\ ~dirty
    /\ f # disk[q]
    /\ disk' = [disk EXCEPT ![q] = f]
    /\ dirty' = TRUE
    /\ UNCHANGED <<env, isDev, cache, plugins, configFailed, config, file, sink,
                   svcConfig, svcInitialConfig, pc, handler, modifyConfig, last,
                   prev, calls, passes, nvars>>

\* the host resolves the configuration at startup: getConfig({ force })
StartupGetConfig(force) ==
    /\ pc = "constructed"
    /\ calls < MaxCalls
    /\ \E g \in {GetConfig(force, FALSE, modifyConfig)} :
           /\ file' = g.file
           /\ cache' = g.cache
           /\ last' = [kind |-> "getConfig", force |-> force, began |-> configFailed,
                       oldConfig |-> config, ret |-> g.ret, stage |-> g.stage,
                       file |-> g.file, config |-> g.config, merged |-> g.merged,
                       units |-> g.units, called |-> g.called, trace |-> g.trace]
           /\ pc' = IF g.ret = "throw" THEN "aborted" ELSE pc
    /\ calls' = calls + 1
    /\ dirty' = FALSE
    /\ UNCHANGED <<env, isDev, disk, plugins, configFailed, config, sink, svcConfig,
                   svcInitialConfig, handler, modifyConfig, prev, passes, nvars>>

\* setConfig, lines 220-222: the host hands over the configuration it resolved
SetConfig ==
    /\ pc = "constructed"
    /\ last.kind = "getConfig"
    /\ config = Null
    /\ config' = last.config
    /\ UNCHANGED <<env, isDev, disk, cache, plugins, configFailed, file, sink, svcConfig,
                   svcInitialConfig, pc, handler, modifyConfig, last, prev, dirty,
                   calls, passes, nvars>>

\* watchWithDevServer and watchConfigs, lines 224-289; this.watch may return
\* no watcher
WatchWithDevServer(watcher) ==
    /\ pc = "constructed"
    /\ pc' = "watching"
    /\ handler' = watcher
    /\ UNCHANGED <<env, isDev, disk, cache, plugins, configFailed, config, file, sink,
                   svcConfig, svcInitialConfig, modifyConfig, last, prev, dirty,
                   calls, passes, nvars>>

\* the watcher emits an event and the handler runs
FileEvent(reloadThrows, oc) ==
    /\ pc = "watching"
    /\ handler
    /\ passes < MaxPasses
    /\ \E r \in {Pass(modifyConfig, reloadThrows, oc)} :
           /\ configFailed' = r.configFailed
           /\ config' = r.config
           /\ sink' = r.sink
           /\ svcInitialConfig' = r.initial
           /\ svcConfig' = r.current
           /\ file' = r.g.file
           /\ cache' = r.g.cache
           /\ pc' = IF r.escaped THEN "crashed" ELSE pc
           /\ last' = [kind |-> "pass", force |-> TRUE, began |-> configFailed,
                       oldConfig |-> config, ret |-> r.g.ret, stage |-> r.stage,
                       file |-> r.g.file, config |-> r.g.config, merged |-> r.g.merged,
                       units |-> r.g.units, called |-> r.g.called, trace |-> r.trace]
    /\ prev' = [kind |-> last.kind, stage |-> last.stage, config |-> last.config]
    /\ passes' = passes + 1
    /\ dirty' = FALSE
    /\ UNCHANGED <<env, isDev, disk, plugins, handler, modifyConfig, calls, nvars>>

Next ==
    \/ \E q \in Editable : \E f \in FilesOf(q) : EditFile(q, f)
    \/ \E force \in BOOLEAN : StartupGetConfig(force)
    \/ SetConfig
    \/ \E watcher \in BOOLEAN : WatchWithDevServer(watcher)
    \/ \E reloadThrows \in BOOLEAN : \E oc \in 0..Len(plugins) :
          FileEvent(reloadThrows, oc)

Spec == Init /\ [][Next]_vars

---------------------------------------------------------------------------
(* What the last call or pass did *)

IsPass == last.kind = "pass"
Did(tag) == Count(last.trace, tag) > 0
Threw == Did("throw")
NoBase == \A i \in 1..Len(CONFIG_FILES) : ~disk[<<i, "base">>].exists
\* the events <<tag, i>> or <<tag, i, ...>> of the last pass
Events(tag, i) ==
    { n \in DOMAIN last.trace : last.trace[n][1] = tag /\ last.trace[n][2] = i }

---------------------------------------------------------------------------
(* Properties of the specification, by their number in the list *)

\* C1, as stated: a watch pass that fails on the load of the base file, on a
\* validate that throws or on an unknown key leaves this.config as it was
C1_Untouched ==
    (IsPass /\ last.stage \in {"load", "validate", "unknown"})
        => config = last.oldConfig

\* C1, amended: a pass that fails on the load of the base file leaves
\* this.config as it was; a pass that fails on a validate that throws or on an
\* unknown key leaves it equal to the configuration that failed the check
C1_FailedPass ==
    /\ (IsPass /\ last.stage = "load") => config = last.oldConfig
    /\ (IsPass /\ last.stage \in {"validate", "unknown"}) => config = last.config

C1_Witness ==
    /\ IsPass /\ last.stage = "validate"
    /\ config = last.config /\ config # last.oldConfig /\ last.oldConfig # Null

\* C2: a pass that throws ends Failed; a pass that began Failed and whose
\* getConfig returns sets Healthy and calls service.reload() exactly once,
\* whatever changed; no other pass calls service.reload(); a pass in which
\* nothing throws ends Healthy
C2_Recovery ==
    IsPass =>
        /\ Threw => configFailed
        /\ ~Threw => ~configFailed
        /\ (last.began /\ last.ret = "return")
              => Count(last.trace, "Healthy") = 1 /\ Count(last.trace, "reload") = 1
        /\ (~last.began \/ last.ret = "throw") => Count(last.trace, "reload") = 0

C2_Witness ==
    /\ IsPass /\ last.began /\ last.ret = "return" /\ ~configFailed
    /\ Count(last.trace, "reload") = 1
    /\ Count(last.trace, "write") = 0
    /\ prev.kind = "pass" /\ prev.stage # "none"

\* C3: when the pass before ran to its end and this pass resolved a
\* configuration with the same value for a namespace, this pass neither calls
\* the onChange of a plugin of that namespace nor writes the namespace into
\* service.config and service._initialConfig
C3_DiffSuppression ==
    (IsPass /\ last.ret = "return" /\ prev.kind = "pass" /\ prev.stage = "none")
        => \A i \in DOMAIN plugins :
              Prop(last.config, plugins[i].name) = Prop(prev.config, plugins[i].name)
                 => Events("onChange", i) = {} /\ Events("write", i) = {}

C3_Witness ==
    /\ IsPass /\ last.stage = "none" /\ prev.kind = "pass" /\ prev.stage = "none"
    /\ \E i \in DOMAIN plugins :
          /\ "a" \in DOMAIN last.config
          /\ plugins[i].name = "a"
          /\ Prop(last.config, "a") = Prop(prev.config, "a")
    /\ Did("onChange")

\* C4: in a pass that began Healthy and ran to its end, every namespace whose
\* new value differs from the one of the configuration held when the pass began
\* is written to service.config and service._initialConfig, and the onChange
\* of its plugin is called exactly once, with the new configuration
C4_Propagation ==
    (IsPass /\ ~last.began /\ last.stage = "none")
        => \A i \in DOMAIN plugins :
              Prop(last.config, plugins[i].name) # Prop(last.oldConfig, plugins[i].name)
                 => /\ Prop(svcConfig, plugins[i].name) = Prop(last.config, plugins[i].name)
                    /\ Prop(svcInitialConfig, plugins[i].name)
                          = Prop(last.config, plugins[i].name)
                    /\ plugins[i].onChange
                          => /\ Cardinality(Events("onChange", i)) = 1
                             /\ \A n \in Events("onChange", i) :
                                   last.trace[n][3] = last.config

C4_Witness ==
    /\ IsPass /\ ~last.began /\ last.stage = "none"
    /\ \E i \in DOMAIN plugins :
          /\ plugins[i].onChange
          /\ Prop(last.config, plugins[i].name) # Prop(last.oldConfig, plugins[i].name)
          /\ Cardinality(Events("onChange", i)) = 1

\* C5: no exception leaves the handler: a pass in which something throws ends
\* Failed, and the handler stays registered and the process running
C5_NoEscape ==
    /\ pc # "crashed"
    /\ (IsPass /\ Threw) => configFailed /\ handler /\ pc = "watching" /\ Did("Failed")

C5_Witness ==
    /\ IsPass /\ prev.kind = "pass" /\ prev.stage = "onChange"
    /\ pc = "watching" /\ handler

\* C6: with a base file, every namespace of the resolved configuration has the
\* value of the last of base, env file, local file that defines it; the env
\* file is asked for only when UMI_ENV is set, the local file only in
\* development, and a file that does not exist gives no key and no error
Asked(v) == \E n \in DOMAIN last.trace : last.trace[n] = <<"existsSync", <<last.file, v>>>>
Unit(v) ==
    IF Asked(v) /\ disk[<<last.file, v>>].exists /\ ~disk[<<last.file, v>>].throws
    THEN normalizeConfig(disk[<<last.file, v>>].exports)
    ELSE EmptyObj
Definer(k) ==
    IF k \in DOMAIN Unit("local") THEN "local"
    ELSE IF k \in DOMAIN Unit("env") THEN "env" ELSE "base"

C6_MergePrecedence ==
    (last.kind # "none" /\ ~dirty /\ last.file # 0
        /\ last.stage \notin {"load", "hook"} /\ modifyConfig = "identity")
        => /\ Asked("env") <=> env
           /\ Asked("local") <=> isDev
           /\ DOMAIN last.config
                 = DOMAIN Unit("base") \cup DOMAIN Unit("env") \cup DOMAIN Unit("local")
           /\ \A k \in DOMAIN last.config : last.config[k] = Unit(Definer(k))[k]
           /\ \A v \in {"env", "local"} :
                 ~disk[<<last.file, v>>].exists
                    => \A n \in DOMAIN last.trace :
                          last.trace[n][1] \in {"require", "load", "console.error"}
                             => last.trace[n][2] # <<last.file, v>>

C6_Witness ==
    /\ last.kind # "none" /\ last.file # 0 /\ ~dirty /\ last.ret = "return"
    /\ env /\ isDev
    /\ \A v \in Variants : disk[<<last.file, v>>].exists
    /\ disk[<<last.file, "base">>].exports = [a |-> 1, b |-> 1]
    /\ disk[<<last.file, "env">>].exports = [b |-> 2]
    /\ disk[<<last.file, "local">>].exports = [b |-> 3]
    /\ last.config = [a |-> 1, b |-> 3]

\* C7: with a base file, getConfig returns only a configuration all of whose
\* keys, after the modifyConfig hook, are names of plugins; with another key
\* it reports the error and throws, and a watch pass ends Failed
C7_NoUnknownKey ==
    (last.kind # "none" /\ last.file # 0)
        => /\ last.ret = "return" => DOMAIN last.config \subseteq pluginNames
           /\ last.stage = "unknown"
                 => /\ last.ret = "throw"
                    /\ DOMAIN last.config \ pluginNames # {}
                    /\ Count(last.trace, "printError") = 1
                    /\ IsPass => configFailed

C7_Witness ==
    /\ IsPass /\ last.stage = "unknown" /\ configFailed
    /\ "zz" \in DOMAIN last.config
    /\ modifyConfig = "addKey"

\* C8: after the construction of the registry no two plugins have the same
\* namespace
C8_OneToOne ==
    pc \in {"constructed", "watching"}
        => \A i, j \in DOMAIN plugins : plugins[i].name = plugins[j].name => i = j

\* C10: without a base file getConfig returns the empty configuration, reports
\* nothing, asks for no file and calls no validate; a watch pass goes on with
\* the empty configuration as a pass whose getConfig returned
C10_MissingBase ==
    (last.kind # "none" /\ ~dirty /\ NoBase)
        => /\ last.ret = "return" /\ last.config = EmptyObj /\ last.file = 0
           /\ \A n \in DOMAIN last.trace :
                 last.trace[n][1] \notin {"printWarn", "printError", "existsSync",
                                          "require", "load", "validate", "modifyConfig"}
           /\ IsPass
                 => /\ Count(last.trace, "setMiddlewareConfig") = 1
                    /\ sink = EmptyObj
                    /\ last.began => Count(last.trace, "reload") = 1
                    /\ Did("accept") => config = EmptyObj
                    /\ ~Threw => ~configFailed /\ config = EmptyObj

C10_Witness ==
    /\ IsPass /\ ~dirty /\ NoBase /\ last.stage = "none"
    /\ config = EmptyObj /\ last.oldConfig # EmptyObj /\ Did("onChange")

\* C11: when a file of the file set that getConfig asks for exists and its
\* load throws, getConfig reports the error and throws (the startup aborts, a
\* watch pass ends Failed), whether the file is the base, env or local file
AskedAndBroken(v) ==
    /\ Asked(v)
    /\ disk[<<last.file, v>>].exists /\ disk[<<last.file, v>>].throws
C11_LoadErrors ==
    (last.kind # "none" /\ ~dirty /\ last.file # 0)
        => \A v \in Variants :
              AskedAndBroken(v)
                 => /\ last.ret = "throw" /\ last.stage = "load"
                    /\ Count(last.trace, "printError") = 1
                    /\ IsPass => configFailed

\* C12: a pass that began Failed and whose getConfig returns calls
\* service.reload() and neither calls an onChange nor writes a namespace into
\* service.config and service._initialConfig
C12_RecoveryDiscardsDiff ==
    (IsPass /\ last.began /\ last.ret = "return")
        => /\ Count(last.trace, "reload") = 1
           /\ Count(last.trace, "onChange") = 0
           /\ Count(last.trace, "write") = 0

\* C13: a getConfig that was given a setConfig callback and fails on a validate
\* that throws or on an unknown key calls the callback exactly once, with the
\* configuration under validation, before printError and before it throws; it
\* does not call it when it returns or when the load of the base file fails
C13_CallbackBeforeError ==
    IsPass =>
        /\ last.stage \in {"validate", "unknown"}
              => /\ Count(last.trace, "setConfig") = 1
                 /\ First(last.trace, "setConfig") < First(last.trace, "printError")
                 /\ First(last.trace, "setConfig") < First(last.trace, "throw")
                 /\ config = last.config
        /\ (last.ret = "return" \/ last.stage = "load")
              => Count(last.trace, "setConfig") = 0

C13_Witness ==
    /\ IsPass /\ last.stage = "unknown"
    /\ Count(last.trace, "setConfig") = 1
    /\ First(last.trace, "setConfig") + 1 = First(last.trace, "printError")
    /\ config = last.config /\ config # last.oldConfig

\* C14: getConfig returns only when every plugin that has a validate and whose
\* namespace is a key of the configuration was called with the value of the
\* namespace, whatever the value, and none of these calls threw
C14_EveryPresentValidated ==
    (last.kind # "none" /\ last.file # 0 /\ last.ret = "return")
        => \A i \in DOMAIN plugins :
              (plugins[i].validate /\ plugins[i].name \in DOMAIN last.config)
                 => /\ Events("validate", i) # {}
                    /\ last.config[plugins[i].name] \notin plugins[i].rejects

\* C15: a watch pass whose getConfig returns sets the middleware sink to the
\* new configuration, once, before service.reload(), before this.config is
\* replaced and before any write or onChange; a pass whose getConfig throws
\* does not write the sink, which keeps its value
Precedes(trace, tag, other) ==
    First(trace, other) = 0 \/ First(trace, tag) < First(trace, other)
C15_MiddlewareSink ==
    [][passes' # passes =>
          /\ last'.ret = "return"
                => /\ Count(last'.trace, "setMiddlewareConfig") = 1
                   /\ sink' = last'.config
                   /\ \A tag \in {"Healthy", "reload", "accept", "write", "onChange"} :
                         Precedes(last'.trace, "setMiddlewareConfig", tag)
          /\ last'.ret = "throw"
                => /\ Count(last'.trace, "setMiddlewareConfig") = 0
                   /\ sink' = sink]_vars

C15_Witness ==
    /\ IsPass /\ last.ret = "return" /\ sink = last.config
    /\ Did("reload") /\ Did("accept") /\ Did("onChange")
    /\ First(last.trace, "setMiddlewareConfig") < First(last.trace, "reload")

\* C16: a watch pass deletes the require.cache entries of the base, env and
\* local paths before it asks for any file, evaluates anew every module it
\* requires, and resolves the units from what the files hold at the time of
\* the pass: the base file fails the pass iff its evaluation throws now
C16_NoStaleLoad ==
    (IsPass /\ ~dirty /\ last.file # 0)
        => /\ Count(last.trace, "evict") = 1
           /\ Precedes(last.trace, "evict", "existsSync")
           /\ Count(last.trace, "require") = Count(last.trace, "load")
           /\ last.stage = "load" <=> disk[<<last.file, "base">>].throws
           /\ last.stage # "load"
                 => last.units = <<Unit("base"), Unit("env"), Unit("local")>>

C16_Witness ==
    /\ IsPass /\ ~dirty /\ last.file # 0 /\ last.ret = "return"
    /\ prev.kind = "pass" /\ prev.stage = "none"
    /\ last.units[1] # prev.config /\ last.units[1] = Unit("base")
    /\ ~env /\ ~isDev

---------------------------------------------------------------------------
(* getConfig on files that hold context, pages and exportStatic *)

PluginsOfPages ==
    << [name |-> "context", validate |-> FALSE, rejects |-> {}, onChange |-> FALSE],
       [name |-> "pages", validate |-> FALSE, rejects |-> {}, onChange |-> FALSE],
       [name |-> "exportStatic", validate |-> FALSE, rejects |-> {}, onChange |-> FALSE],
       [name |-> "a", validate |-> FALSE, rejects |-> {}, onChange |-> FALSE] >>

OnePage == << <<<<"a">>, EmptyObj>> >>
OwnPage == << <<<<"/", "a">>, [context |-> [x |-> 3]]>> >>

BasesOfPages ==
    { Module([context |-> [x |-> 1], pages |-> OnePage]),
      Module([pages |-> OnePage, exportStatic |-> [htmlSuffix |-> TRUE]]),
      Module([context |-> [x |-> 1, y |-> 1], pages |-> OwnPage, a |-> 1]),
      Module([a |-> 1]) }

OverridesOfPages ==
    { Absent,
      Module([context |-> [x |-> 2]]),
      Module([exportStatic |-> [htmlSuffix |-> FALSE]]),
      Module([pages |-> OnePage, exportStatic |-> [htmlSuffix |-> TRUE]]) }

DisksOfPages ==
    { [NoDisk EXCEPT ![<<1, "base">>] = b, ![<<1, "env">>] = e, ![<<1, "local">>] = l] :
        b \in BasesOfPages, e \in OverridesOfPages, l \in OverridesOfPages }

InitPages ==
    /\ env \in BOOLEAN
    /\ isDev \in BOOLEAN
    /\ disk \in DisksOfPages
    /\ cache = [q \in Paths |-> NotCached]
    /\ plugins = initConfigPlugins(PluginsOfPages)
    /\ modifyConfig = "identity"
    /\ configFailed = FALSE /\ config = Null /\ file = 0
    /\ sink = Null /\ svcConfig = EmptyObj /\ svcInitialConfig = EmptyObj
    /\ pc = "constructed" /\ handler = FALSE
    /\ last = NoCall /\ prev = NoPass /\ dirty = FALSE /\ calls = 0 /\ passes = 0
    /\ nIn = EmptyObj /\ nOut = EmptyObj /\ nOut2 = EmptyObj /\ nPc = "off"

NextPages ==
    \/ \E force \in BOOLEAN : StartupGetConfig(force)
    \/ SetConfig

SpecPages == InitPages /\ [][NextPages]_vars

\* what the file holds when getConfig asks for it and it loads, else {}
Raw(v) ==
    IF Asked(v) /\ disk[<<last.file, v>>].exists /\ ~disk[<<last.file, v>>].throws
    THEN disk[<<last.file, v>>].exports
    ELSE EmptyObj

\* C17: the configuration getConfig resolves equals normalizeConfig applied
\* once to the merge of the files as they are written: pages inherit the
\* context of the resolved configuration and get `.html` exactly when the
\* resolved exportStatic.htmlSuffix is set
C17_NormalizeComposes ==
    (last.kind = "getConfig" /\ last.file # 0 /\ last.ret = "return")
        => last.config = normalizeConfig(Spread(Spread(Raw("base"), Raw("env")), Raw("local")))

\* C18: the validators run in the order of the registry and before any error
\* is reported; after the first that throws no other runs and no unknown key
\* is looked for; the unknown keys are looked for only after every validator
\* has run; a getConfig that fails reports one error and throws one
ValidateEvents == { n \in DOMAIN last.trace : last.trace[n][1] = "validate" }
C18_OrderedFailFast ==
    (last.kind # "none" /\ last.file # 0 /\ last.stage \notin {"load", "hook"})
        => /\ \A m, n \in ValidateEvents :
                 m < n => last.trace[m][2] < last.trace[n][2]
           /\ \A n \in ValidateEvents : \A tag \in {"setConfig", "printError", "throw"} :
                 First(last.trace, tag) = 0 \/ n < First(last.trace, tag)
           /\ last.stage = "validate"
                 => \E n \in ValidateEvents :
                       /\ \A m \in ValidateEvents : m <= n
                       /\ last.config[plugins[last.trace[n][2]].name]
                             \in plugins[last.trace[n][2]].rejects
                       /\ \A i \in 1..(last.trace[n][2] - 1) :
                             Validated(last.config, plugins[i])
                                => Events("validate", i) # {}
           /\ last.stage # "validate"
                 => \A i \in DOMAIN plugins :
                       Validated(last.config, plugins[i])
                          => /\ Events("validate", i) # {}
                             /\ last.config[plugins[i].name] \notin plugins[i].rejects
           /\ last.ret = "throw"
                 => /\ Count(last.trace, "printError") = 1
                    /\ Count(last.trace, "throw") = 1
                    /\ \A n \in DOMAIN last.trace :
                          last.trace[n][1] = "printError" => last.trace[n][2] = last.stage
           /\ last.ret = "return" => Count(last.trace, "printError") = 0

C18_Witness ==
    /\ last.kind # "none" /\ last.stage = "validate"
    /\ DOMAIN last.config \ pluginNames # {}
    /\ Count(last.trace, "printError") = 1
    /\ ValidateEvents # {}

\* C20: a watch pass whose getConfig returns and in which neither
\* service.reload() nor an onChange throws ends Healthy with this.config equal
\* to the new configuration, from every state, the one in which setConfig was
\* never called included
C20_GoodPassEndsHealthy ==
    (IsPass /\ last.ret = "return" /\ last.stage \notin {"reload", "onChange"})
        => ~configFailed /\ config = last.config

---------------------------------------------------------------------------
(* The watch loop of a host that has started: it resolved the configuration, *)
(* handed it to setConfig and holds it in service.config and                 *)
(* service._initialConfig                                                    *)

InitTrack ==
    /\ env \in BOOLEAN
    /\ isDev \in BOOLEAN
    /\ disk \in InitialDisks
    /\ cache = [q \in Paths |-> NotCached]
    /\ \E host \in Hosts : /\ plugins = initConfigPlugins(host[1])
                            /\ modifyConfig = host[2]
    /\ \E g \in {GetConfig(TRUE, FALSE, modifyConfig)} :
           /\ g.ret = "return"
           /\ file = g.file
           /\ config = g.config
           /\ svcConfig = g.config
           /\ svcInitialConfig = g.config
    /\ configFailed = FALSE
    /\ sink = Null
    /\ pc = "watching" /\ handler = TRUE
    /\ last = NoCall /\ prev = NoPass /\ dirty = FALSE /\ calls = 0 /\ passes = 0
    /\ nIn = EmptyObj /\ nOut = EmptyObj /\ nOut2 = EmptyObj /\ nPc = "off"

NextTrack ==
    \/ \E q \in Editable : \E f \in FilesOf(q) : EditFile(q, f)
    \/ \E reloadThrows \in BOOLEAN : \E oc \in 0..Len(plugins) : FileEvent(reloadThrows, oc)

SpecTrack == InitTrack /\ [][NextTrack]_vars

\* C19: at the end of every watch pass in which nothing throws, every
\* namespace of a plugin has in service.config and service._initialConfig the
\* value it has in the new configuration
C19_ServiceTracks ==
    (IsPass /\ last.stage = "none")
        => \A i \in DOMAIN plugins :
              /\ Prop(svcConfig, plugins[i].name) = Prop(last.config, plugins[i].name)
              /\ Prop(svcInitialConfig, plugins[i].name)
                    = Prop(last.config, plugins[i].name)

---------------------------------------------------------------------------
(* Inputs of the normalizeConfig harness *)

MaxPages == 2
MaxWrap == 2

PageKeys == { <<>>, <<"a">>, <<"/", "a">>, <<"a", "/">>,
              <<"a">> \o DotHtml, <<"/", "a">> \o DotHtml }

Contexts == { [x |-> 1], [x |-> 2, y |-> 1] }

PageVals == { EmptyObj, [context |-> [x |-> 3]], [title |-> 1] }

PagesVals ==
    { p \in UNION { [1..n -> PageKeys \X PageVals] : n \in 0..MaxPages } :
        \A i, j \in DOMAIN p : i # j => p[i][1] # p[j][1] }

PlainVals(k) ==
    CASE k = "context" -> Contexts
      [] k = "pages" -> PagesVals
      [] k = "exportStatic" -> { [htmlSuffix |-> TRUE], [htmlSuffix |-> FALSE] }
      [] OTHER -> {1}

\* the objects over the keys of the sequence ks, each key absent or with one
\* of its values
RECURSIVE Objects(_)
Objects(ks) ==
    IF ks = <<>> THEN {EmptyObj}
    ELSE LET rest == Objects(Tail(ks))
         IN  rest \cup { Spread(o, [k \in {Head(ks)} |-> v]) :
                             o \in rest, v \in PlainVals(Head(ks)) }

PlainConfigs == Objects(<<"a", "context", "pages", "exportStatic">>)

\* a configuration under n `default` wrappers (an ES module's default export)
RECURSIVE Wrap(_, _)
Wrap(cfg, n) == IF n = 0 THEN cfg ELSE [default |-> Wrap(cfg, n - 1)]

NormInputs == { Wrap(c, n) : c \in PlainConfigs, n \in 0..MaxWrap }

---------------------------------------------------------------------------
(* The normalizeConfig harness *)

NormInit ==
    /\ nIn \in NormInputs
    /\ nOut = EmptyObj
    /\ nOut2 = EmptyObj
    /\ nPc = "in"
    /\ env = FALSE /\ isDev = FALSE /\ disk = NoDisk
    /\ cache = [q \in Paths |-> NotCached]
    /\ plugins = <<>> /\ configFailed = FALSE /\ config = Null /\ file = 0
    /\ sink = Null /\ svcConfig = EmptyObj /\ svcInitialConfig = EmptyObj
    /\ pc = "off" /\ handler = FALSE /\ modifyConfig = "identity"
    /\ last = NoCall /\ prev = NoPass /\ dirty = FALSE /\ calls = 0 /\ passes = 0

NormOnce ==
    /\ nPc = "in"
    /\ nOut' = normalizeConfig(nIn)
    /\ nPc' = "once"
    /\ UNCHANGED <<nIn, nOut2, wvars>>

NormTwice ==
    /\ nPc = "once"
    /\ nOut2' = normalizeConfig(nOut)
    /\ nPc' = "twice"
    /\ UNCHANGED <<nIn, nOut, wvars>>

NormNext == NormOnce \/ NormTwice

SpecNorm == NormInit /\ [][NormNext]_vars

\* C9: normalizeConfig is idempotent: normalize(normalize(x)) = normalize(x)
C9_Idempotent == nPc = "twice" => nOut2 = nOut

=============================================================================
